---------------------------- MODULE Spec2Model ----------------------------
(***************************************************************************)
(* Model of pythonProject/vCardCleaner/Cleaner.py.                         *)
(*                                                                         *)
(* Strings are sequences of one-character strings, so that splitting,      *)
(* stripping, joining and prefix tests are computed as the Python code     *)
(* computes them.  A record (a Python dict, insertion ordered) is a        *)
(* sequence of entries [key, isList, insts]: isList tells the dict value   *)
(* is a Python list, and insts holds its property values (exactly one when *)
(* the value is a single dict).  A property value is [value, params].      *)
(* Records live in a heap indexed by object identity; the lists and the    *)
(* duplicates dictionary hold identities, as the Python lists hold         *)
(* references.                                                             *)
(***************************************************************************)
EXTENDS Integers, Sequences, FiniteSets, TLC

VARIABLES
    pc,                \* position of the run
    file,              \* the input: physical lines, terminators included
    heap,              \* object identity -> record
    vcards,            \* main: vcards (identities, input order)
    unique_vcards,     \* main: unique_vcards (identities)
    duplicates,        \* main: duplicates, ordered <<[key, members]>>
    processed_lines,   \* result of preprocess_vcard_lines
    vcard,             \* round trip: the parsed record
    text,              \* round trip: its serialization
    reparsed           \* round trip: the serialization parsed again

vars == <<pc, file, heap, vcards, unique_vcards, duplicates,
          processed_lines, vcard, text, reparsed>>

(***************************************************************************)
(* Bounds of the checked inputs.                                           *)
(***************************************************************************)
MaxPhys == 3      \* physical lines given to the unfolder
MaxCards == 4     \* blocks of a file of small cards
MaxLines == 3     \* property lines of a file of one rich card

SeqsUpTo(S, n) == UNION {[1..k -> S] : k \in 0..n}

RECURSIVE Concat(_)
Concat(ss) == IF ss = <<>> THEN <<>> ELSE Head(ss) \o Concat(Tail(ss))

(***************************************************************************)
(* Python string primitives, on character sequences.                       *)
(***************************************************************************)
Whitespace == {" ", "\t", "\n"}

RECURSIVE rstrip(_)
rstrip(s) ==
    IF s = <<>> THEN s
    ELSE IF s[Len(s)] \in Whitespace THEN rstrip(SubSeq(s, 1, Len(s) - 1))
    ELSE s

RECURSIVE lstrip(_)
lstrip(s) ==
    IF s = <<>> THEN s
    ELSE IF s[1] \in Whitespace THEN lstrip(Tail(s))
    ELSE s

strip(s) == lstrip(rstrip(s))

startswith(s, p) == Len(s) >= Len(p) /\ SubSeq(s, 1, Len(p)) = p

Contains(s, c) == \E i \in 1..Len(s) : s[i] = c

FirstIndex(s, c) ==
    CHOOSE i \in 1..Len(s) : s[i] = c /\ \A j \in 1..(i - 1) : s[j] # c

\* str.split(c): the pieces between the occurrences of c, empty ones kept
RECURSIVE split(_, _)
split(s, c) ==
    IF ~Contains(s, c) THEN <<s>>
    ELSE LET i == FirstIndex(s, c)
         IN  <<SubSeq(s, 1, i - 1)>> \o split(SubSeq(s, i + 1, Len(s)), c)

\* c.join(parts)
RECURSIVE join(_, _)
join(c, parts) ==
    IF parts = <<>> THEN <<>>
    ELSE IF Len(parts) = 1 THEN parts[1]
    ELSE parts[1] \o <<c>> \o join(c, Tail(parts))

UpperChar(c) ==
    CASE c = "a" -> "A" [] c = "e" -> "E" [] c = "i" -> "I"
      [] c = "l" -> "L" [] c = "m" -> "M" [] c = "n" -> "N"
      [] c = "t" -> "T" [] c = "u" -> "U" [] OTHER -> c

upper(s) == [i \in 1..Len(s) |-> UpperChar(s[i])]

(***************************************************************************)
(* Literals of the code.                                                   *)
(***************************************************************************)
BEGIN == <<"B", "E", "G", "I", "N">>
END == <<"E", "N", "D">>
VCARD == <<"V", "C", "A", "R", "D">>
BEGIN_VCARD == BEGIN \o <<":">> \o VCARD
END_VCARD == END \o <<":">> \o VCARD
FN == <<"F", "N">>
TEL == <<"T", "E", "L">>
NULL == <<"N", "U", "L", "L">>

(***************************************************************************)
(* preprocess_vcard_lines                                                  *)
(***************************************************************************)
\* A plausible slip: only the line terminator is removed.
StripLine_TerminatorOnly(line) ==
    IF line # <<>> /\ line[Len(line)] = "\n"
    THEN SubSeq(line, 1, Len(line) - 1) ELSE line

\* line = line.rstrip()
StripLine(line) == rstrip(line)

\* one iteration of the loop over lines; st = [processed, current]
PreprocessStep(st, rawline) ==
    LET line == StripLine(rawline)
    IN  IF startswith(line, <<" ">>) \/ startswith(line, <<"\t">>)
        THEN [processed |-> st.processed,
              current |-> st.current \o SubSeq(line, 2, Len(line))]
        ELSE [processed |-> IF st.current # <<>>
                            THEN Append(st.processed, st.current)
                            ELSE st.processed,
              current |-> line]

RECURSIVE PreprocessLoop(_, _)
PreprocessLoop(st, lines) ==
    IF lines = <<>> THEN st
    ELSE PreprocessLoop(PreprocessStep(st, Head(lines)), Tail(lines))

preprocess_vcard_lines(lines) ==
    LET st == PreprocessLoop([processed |-> <<>>, current |-> <<>>], lines)
    IN  IF st.current # <<>> THEN Append(st.processed, st.current)
        ELSE st.processed

(***************************************************************************)
(* Records: ordered dictionaries of properties.                            *)
(***************************************************************************)
HasKey(rec, k) == \E i \in 1..Len(rec) : rec[i].key = k
KeyIndex(rec, k) == CHOOSE i \in 1..Len(rec) : rec[i].key = k
Keys(rec) == {rec[i].key : i \in 1..Len(rec)}
Get(rec, k) == rec[KeyIndex(rec, k)]

\* Python's == on dicts: same keys, equal values, order of keys ignored
DictEq(a, b) ==
    /\ Len(a) = Len(b)
    /\ Keys(a) = Keys(b)
    /\ \A k \in Keys(a) :
          /\ Get(a, k).isList = Get(b, k).isList
          /\ Get(a, k).insts = Get(b, k).insts

\* the two places where parse_vcard stores a property value
StoreProperty(rec, name, pv) ==
    IF HasKey(rec, name)
    THEN [rec EXCEPT ![KeyIndex(rec, name)] =
              [key |-> name, isList |-> TRUE, insts |-> Append(@.insts, pv)]]
    ELSE Append(rec, [key |-> name, isList |-> FALSE, insts |-> <<pv>>])

ParseLine(rec, line) ==
    IF ~Contains(line, ":") THEN rec
    ELSE LET i == FirstIndex(line, ":")
             key == SubSeq(line, 1, i - 1)
             value == SubSeq(line, i + 1, Len(line))
             key_parts == split(key, ";")
             property_name == key_parts[1]
             params == IF Len(key_parts) > 1 THEN Tail(key_parts) ELSE <<>>
         IN  StoreProperty(rec, property_name,
                           [value |-> strip(value), params |-> params])

RECURSIVE ParseLoop(_, _)
ParseLoop(rec, lines) ==
    IF lines = <<>> THEN rec
    ELSE ParseLoop(ParseLine(rec, Head(lines)), Tail(lines))

parse_vcard(lines) == ParseLoop(<<>>, preprocess_vcard_lines(lines))

\* read_vcards: st = [vcards_, current_vcard], one iteration per file line
ReadStep(st, line) ==
    IF startswith(line, BEGIN_VCARD)
    THEN [vcards_ |-> st.vcards_, current_vcard |-> <<line>>]
    ELSE IF startswith(line, END_VCARD)
    THEN [vcards_ |-> Append(st.vcards_,
                             parse_vcard(Append(st.current_vcard, line))),
          current_vcard |-> Append(st.current_vcard, line)]
    ELSE [vcards_ |-> st.vcards_,
          current_vcard |-> Append(st.current_vcard, line)]

RECURSIVE ReadLoop(_, _)
ReadLoop(st, lines) ==
    IF lines = <<>> THEN st
    ELSE ReadLoop(ReadStep(st, Head(lines)), Tail(lines))

read_vcards(lines) ==
    ReadLoop([vcards_ |-> <<>>, current_vcard |-> <<>>], lines).vcards_

(***************************************************************************)
(* format_vcard_line and vcard_to_string                                   *)
(***************************************************************************)
format_vcard_line(key, pv) ==
    LET params == IF pv.params # <<>> THEN join(";", pv.params) ELSE <<>>
        prefix == IF params # <<>> THEN key \o <<";">> \o params ELSE key
    IN  prefix \o <<":">> \o pv.value

EntryLines(e) ==
    IF e.key \in {BEGIN, END} THEN <<>>
    ELSE [i \in 1..Len(e.insts) |-> format_vcard_line(e.key, e.insts[i])]

vcard_to_string(rec) ==
    join("\n", <<BEGIN_VCARD>>
               \o Concat([i \in 1..Len(rec) |-> EntryLines(rec[i])])
               \o <<END_VCARD>>)

(***************************************************************************)
(* remove_null_values                                                      *)
(***************************************************************************)
\* A plausible slip: the comparison without .upper()
IsNullValue_CaseSensitive(pv) == pv.value = NULL

\* v['value'].upper() == 'NULL'
IsNullValue(pv) == upper(pv.value) = NULL

NotNullValue(pv) == ~IsNullValue(pv)

\* what the loop body leaves of one property: <<>> when it deletes the key
FilterEntry(e) ==
    IF e.isList
    THEN LET filtered_values == SelectSeq(e.insts, NotNullValue)
         IN  IF filtered_values = <<>> THEN <<>>
             ELSE <<[e EXCEPT !.insts = filtered_values]>>
    ELSE IF IsNullValue(e.insts[1]) THEN <<>> ELSE <<e>>

RemoveNullsOfRecord(rec) == Concat([i \in 1..Len(rec) |-> FilterEntry(rec[i])])

(***************************************************************************)
(* extract_name and the name key of organize_duplicates                    *)
(***************************************************************************)
\* vcard.get('FN', {'value': ''})['value'] indexes a list with a string
\* when FN is stored as a list: TypeError
ExtractNameRaises(rec) == HasKey(rec, FN) /\ Get(rec, FN).isList

extract_name(rec) ==
    LET name == IF HasKey(rec, FN) THEN Get(rec, FN).insts[1].value ELSE <<>>
        parts == split(name, " ")
    IN  [first_name |-> parts[1],
         last_name |-> IF Len(parts) > 1 THEN parts[Len(parts)] ELSE <<>>]

name_key(rec) ==
    LET n == extract_name(rec)
    IN  n.last_name \o <<",", " ">> \o n.first_name

(***************************************************************************)
(* organize_duplicates                                                     *)
(***************************************************************************)
GroupIndex(dups, k) == CHOOSE g \in 1..Len(dups) : dups[g].key = k
HasGroup(dups, k) == \E g \in 1..Len(dups) : dups[g].key = k

\* the scan; st = [duplicates_, unique_vcards_, seen_names]
OrganizeStep(st, id) ==
    LET k == name_key(heap[id])
    IN  IF \E s \in 1..Len(st.seen_names) : st.seen_names[s].key = k
        THEN LET first == (CHOOSE e \in {st.seen_names[s] :
                                          s \in 1..Len(st.seen_names)} :
                               e.key = k).id
                 seeded == IF HasGroup(st.duplicates_, k) THEN st.duplicates_
                           ELSE Append(st.duplicates_,
                                       [key |-> k, members |-> <<first>>])
                 g == GroupIndex(seeded, k)
             IN  [st EXCEPT !.duplicates_ =
                      [seeded EXCEPT ![g].members = Append(@, id)]]
        ELSE [st EXCEPT !.seen_names = Append(@, [key |-> k, id |-> id]),
                        !.unique_vcards_ = Append(@, id)]

RECURSIVE OrganizeScan(_, _)
OrganizeScan(st, ids) ==
    IF ids = <<>> THEN st
    ELSE OrganizeScan(OrganizeStep(st, Head(ids)), Tail(ids))

\* A plausible slip: the duplicate stays in the unique list
RemoveFromUnique_Kept(uniq, id) == uniq

\* if duplicate_vcard in unique_vcards_: unique_vcards_.remove(duplicate_vcard)
\* (both compare with ==, and remove takes the first equal element)
RemoveFromUnique(uniq, id) ==
    IF \E j \in 1..Len(uniq) : DictEq(heap[uniq[j]], heap[id])
    THEN LET j == CHOOSE j \in 1..Len(uniq) :
                      /\ DictEq(heap[uniq[j]], heap[id])
                      /\ \A h \in 1..(j - 1) : ~DictEq(heap[uniq[h]], heap[id])
         IN  SubSeq(uniq, 1, j - 1) \o SubSeq(uniq, j + 1, Len(uniq))
    ELSE uniq

RECURSIVE RemoveAllFromUnique(_, _)
RemoveAllFromUnique(uniq, ids) ==
    IF ids = <<>> THEN uniq
    ELSE RemoveAllFromUnique(RemoveFromUnique(uniq, Head(ids)), Tail(ids))

organize_duplicates(ids) ==
    LET st == OrganizeScan([duplicates_ |-> <<>>, unique_vcards_ |-> <<>>,
                            seen_names |-> <<>>], ids)
        all == Concat([g \in 1..Len(st.duplicates_) |->
                          st.duplicates_[g].members])
    IN  [unique_vcards_ |-> RemoveAllFromUnique(st.unique_vcards_, all),
         duplicates_ |-> st.duplicates_]

(***************************************************************************)
(* remove_identical_entries, move_unique_entries_back                      *)
(***************************************************************************)
\* A plausible slip: the last of the identical members is the one kept
RECURSIVE CollapseMembers_KeepLast(_, _)
CollapseMembers_KeepLast(members, seen) ==
    IF members = <<>> THEN <<>>
    ELSE IF \E j \in 2..Len(members) :
                vcard_to_string(heap[members[j]])
                    = vcard_to_string(heap[Head(members)])
         THEN CollapseMembers_KeepLast(Tail(members), seen)
         ELSE <<Head(members)>> \o CollapseMembers_KeepLast(Tail(members), seen)

\* the inner loop of remove_identical_entries; seen is its set of strings
RECURSIVE CollapseMembers(_, _)
CollapseMembers(members, seen) ==
    IF members = <<>> THEN <<>>
    ELSE LET vcard_str == vcard_to_string(heap[Head(members)])
         IN  IF vcard_str \notin seen
             THEN <<Head(members)>>
                  \o CollapseMembers(Tail(members), seen \cup {vcard_str})
             ELSE CollapseMembers(Tail(members), seen)

remove_identical_entries(dups) ==
    [g \in 1..Len(dups) |->
        [dups[g] EXCEPT !.members = CollapseMembers(@, {})]]

IsSingleton(grp) == Len(grp.members) = 1
IsNotSingleton(grp) == ~IsSingleton(grp)

\* A plausible slip: the promoted entry is not deleted from duplicates_
move_unique_entries_back_NoDelete(dups, main_vcards) ==
    [duplicates_ |-> dups,
     main_vcards |-> main_vcards
        \o Concat([g \in 1..Len(dups) |->
                      IF IsSingleton(dups[g]) THEN dups[g].members ELSE <<>>])]

\* returns what it leaves of duplicates_ and of main_vcards
move_unique_entries_back(dups, main_vcards) ==
    [duplicates_ |-> SelectSeq(dups, IsNotSingleton),
     main_vcards |-> main_vcards
        \o Concat([g \in 1..Len(dups) |->
                      IF IsSingleton(dups[g]) THEN dups[g].members ELSE <<>>])]

(***************************************************************************)
(* clean_and_aggregate_vcards                                              *)
(***************************************************************************)
Digits == {"0", "1", "2", "3", "4", "5", "6", "7", "8", "9"}

\* item_pattern.match(prop), item_pattern = ^item\d+\.
item_pattern_match(prop) ==
    /\ startswith(prop, <<"i", "t", "e", "m">>)
    /\ \E d \in 6..Len(prop) :
          /\ prop[d] = "."
          /\ \A j \in 5..(d - 1) : prop[j] \in Digits

Single(prop, v) == [key |-> prop, isList |-> FALSE, insts |-> <<v>>]

\* aggregated_properties[v_str] = {prop: v}, on an insertion-ordered dict
AggregatePut(agg, prop, v) ==
    LET v_str == vcard_to_string(<<Single(prop, v)>>)
        item == [v_str |-> v_str, prop |-> prop, v |-> v]
    IN  IF \E a \in 1..Len(agg) : agg[a].v_str = v_str
        THEN [agg EXCEPT ![CHOOSE a \in 1..Len(agg) : agg[a].v_str = v_str]
                             = item]
        ELSE Append(agg, item)

RECURSIVE AggregateInsts(_, _, _)
AggregateInsts(agg, prop, insts) ==
    IF insts = <<>> THEN agg
    ELSE AggregateInsts(AggregatePut(agg, prop, Head(insts)), prop, Tail(insts))

\* the loop over vcard.items()
RECURSIVE AggregateRecord(_, _)
AggregateRecord(agg, rec) ==
    IF rec = <<>> THEN agg
    ELSE LET e == Head(rec)
         IN  AggregateRecord(
                 IF item_pattern_match(e.key) THEN agg
                 ELSE AggregateInsts(agg, e.key, e.insts),
                 Tail(rec))

RECURSIVE AggregateMembers(_, _)
AggregateMembers(agg, members) ==
    IF members = <<>> THEN agg
    ELSE AggregateMembers(AggregateRecord(agg, heap[Head(members)]),
                          Tail(members))

\* new_vcard.update({prop: v}): the key keeps its place, the value is replaced
DictUpdate(rec, prop, v) ==
    IF HasKey(rec, prop)
    THEN [rec EXCEPT ![KeyIndex(rec, prop)] = Single(prop, v)]
    ELSE Append(rec, Single(prop, v))

RECURSIVE BuildNewVcard(_, _)
BuildNewVcard(rec, agg) ==
    IF agg = <<>> THEN rec
    ELSE BuildNewVcard(DictUpdate(rec, Head(agg).prop, Head(agg).v), Tail(agg))

\* the new_vcard of one group
AggregatedVcard(members) == BuildNewVcard(<<>>, AggregateMembers(<<>>, members))

(***************************************************************************)
(* remove_duplicate_phone_numbers                                          *)
(***************************************************************************)
\* A plausible slip: the first entry of a number is the one kept
UniquePhonesPut_FirstWins(unique_phones, phone_entry) ==
    IF \E j \in 1..Len(unique_phones) :
           unique_phones[j].value = phone_entry.value
    THEN unique_phones
    ELSE Append(unique_phones, phone_entry)

\* unique_phones[phone_number] = phone_entry, on an insertion-ordered dict
UniquePhonesPut(unique_phones, phone_entry) ==
    IF \E j \in 1..Len(unique_phones) :
           unique_phones[j].value = phone_entry.value
    THEN [unique_phones EXCEPT
              ![CHOOSE j \in 1..Len(unique_phones) :
                    unique_phones[j].value = phone_entry.value] = phone_entry]
    ELSE Append(unique_phones, phone_entry)

RECURSIVE UniquePhones(_, _)
UniquePhones(unique_phones, entries) ==
    IF entries = <<>> THEN unique_phones
    ELSE UniquePhones(UniquePhonesPut(unique_phones, Head(entries)),
                      Tail(entries))

\* the loop body, for one vCard
DedupPhonesOfRecord(rec) ==
    IF HasKey(rec, TEL)
    THEN [rec EXCEPT ![KeyIndex(rec, TEL)] =
              [key |-> TEL, isList |-> TRUE,
               insts |-> UniquePhones(<<>>, @.insts)]]
    ELSE rec

(***************************************************************************)
(* The inputs that are checked.                                            *)
(***************************************************************************)
Line(content) == content \o <<"\n">>

Block(lines) ==
    <<Line(BEGIN_VCARD)>> \o [i \in 1..Len(lines) |-> Line(lines[i])]
                          \o <<Line(END_VCARD)>>

FileOf(cards) == Concat([i \in 1..Len(cards) |-> Block(cards[i])])

FN_J_D == FN \o <<":", "J", " ", "D">>
FN_J_X_D == FN \o <<":", "J", " ", "X", " ", "D">>
FN_K == FN \o <<":", "K">>
FN_NULL == FN \o <<":">> \o NULL
TEL_1 == TEL \o <<":", "1">>
TEL_2 == TEL \o <<":", "2">>
TEL_C_1 == TEL \o <<";", "C", ":", "1">>
TEL_H_1 == TEL \o <<";", "H", ":", "1">>
TEL_NULL == TEL \o <<":">> \o NULL
TEL_null == TEL \o <<":", "n", "u", "l", "l">>
TEL_E_1 == TEL \o <<";", ":", "1">>
TEL_EE_1 == TEL \o <<";", ";", ":", "1">>
TEL_C_H_1 == TEL \o <<";", "C", ";", "H", ":", "1">>
ITEM1_E_a == <<"i", "t", "e", "m", "1", ".", "E", ":", "a">>
NO_COLON == <<"X">>

\* files of up to MaxCards small cards.  The name keys are ", " (no FN)
\* and "D, J" (FN:J D and FN:J X D); the card with TEL:NULL is, once
\* filtered, equal as a value to the card with FN:J D alone
SmallCards ==
    {<<>>,
     <<TEL_1>>,
     <<FN_J_D>>,
     <<FN_J_D, TEL_1>>,
     <<FN_J_D, TEL_2>>,
     <<FN_J_D, TEL_NULL>>,
     <<FN_J_X_D, TEL_1>>}

SmallFiles == {FileOf(cs) : cs \in SeqsUpTo(SmallCards, MaxCards)}

\* files of one card of up to MaxLines lines
RichLines ==
    {TEL_2, TEL_C_1, TEL_H_1, TEL_NULL, TEL_null, FN_J_D, FN_K, FN_NULL,
     ITEM1_E_a}

RichFiles == {FileOf(<<ls>>) : ls \in SeqsUpTo(RichLines, MaxLines)}

\* physical lines for the unfolder: every content of at most two
\* characters over space, tab and a letter, and some of three
FoldChars == {" ", "\t", "a"}

PhysContents ==
    {<<>>} \cup {<<c>> : c \in FoldChars}
           \cup {<<c, d>> : c \in FoldChars, d \in FoldChars}
           \cup {<<" ", " ", "a">>, <<" ", "a", " ">>, <<"a", " ", "a">>}

UnfoldInputs == SeqsUpTo({Line(c) : c \in PhysContents}, MaxPhys)

\* blocks for the round trip, boundary lines included
RoundTripLines ==
    {TEL_1, TEL_C_1, TEL_E_1, TEL_EE_1, TEL_C_H_1, FN_J_D, NO_COLON}

RoundTripBlocks ==
    {<<BEGIN_VCARD>> \o ls \o <<END_VCARD>> :
        ls \in SeqsUpTo(RoundTripLines, MaxLines)}

(***************************************************************************)
(* The run of __main__: one action per call.                               *)
(***************************************************************************)
Idle ==
    /\ heap = <<>> /\ vcards = <<>> /\ unique_vcards = <<>>
    /\ duplicates = <<>> /\ processed_lines = <<>>
    /\ vcard = <<>> /\ text = <<>> /\ reparsed = <<>>

Init == pc = "start" /\ file \in SmallFiles \cup RichFiles /\ Idle

Range(seq) == {seq[i] : i \in 1..Len(seq)}

\* vcards = read_vcards(source_file)
ReadVcards ==
    /\ pc = "start"
    /\ heap' = read_vcards(file)
    /\ vcards' = [i \in 1..Len(heap') |-> i]
    /\ pc' = "read"
    /\ UNCHANGED <<file, unique_vcards, duplicates, processed_lines,
                   vcard, text, reparsed>>

\* remove_null_values(vcards)
RemoveNullValues ==
    /\ pc = "read"
    /\ heap' = [i \in 1..Len(heap) |->
                   IF i \in Range(vcards) THEN RemoveNullsOfRecord(heap[i])
                   ELSE heap[i]]
    /\ pc' = "filtered"
    /\ UNCHANGED <<file, vcards, unique_vcards, duplicates, processed_lines,
                   vcard, text, reparsed>>

\* unique_vcards, duplicates = organize_duplicates(vcards); the TypeError
\* of extract_name ends the run
OrganizeDuplicates ==
    /\ pc = "filtered"
    /\ IF \E i \in 1..Len(vcards) : ExtractNameRaises(heap[vcards[i]])
       THEN /\ pc' = "TypeError"
            /\ UNCHANGED <<unique_vcards, duplicates>>
       ELSE /\ unique_vcards' = organize_duplicates(vcards).unique_vcards_
            /\ duplicates' = organize_duplicates(vcards).duplicates_
            /\ pc' = "organized"
    /\ UNCHANGED <<file, heap, vcards, processed_lines, vcard, text, reparsed>>

\* clean_duplicates, first call: remove_identical_entries(duplicates_)
RemoveIdenticalEntries ==
    /\ pc = "organized"
    /\ duplicates' = remove_identical_entries(duplicates)
    /\ pc' = "collapsed"
    /\ UNCHANGED <<file, heap, vcards, unique_vcards, processed_lines,
                   vcard, text, reparsed>>

\* clean_duplicates, second call: move_unique_entries_back
MoveUniqueEntriesBack ==
    /\ pc = "collapsed"
    /\ duplicates' =
           move_unique_entries_back(duplicates, unique_vcards).duplicates_
    /\ unique_vcards' =
           move_unique_entries_back(duplicates, unique_vcards).main_vcards
    /\ pc' = "promoted"
    /\ UNCHANGED <<file, heap, vcards, processed_lines, vcard, text, reparsed>>

\* clean_and_aggregate_vcards(duplicates): each group becomes a list of one
\* new dict
CleanAndAggregate ==
    /\ pc = "promoted"
    /\ heap' = heap \o [g \in 1..Len(duplicates) |->
                           AggregatedVcard(duplicates[g].members)]
    /\ duplicates' = [g \in 1..Len(duplicates) |->
                         [duplicates[g] EXCEPT !.members = <<Len(heap) + g>>]]
    /\ pc' = "aggregated"
    /\ UNCHANGED <<file, vcards, unique_vcards, processed_lines,
                   vcard, text, reparsed>>

\* add_duplicates_back_to_vcards(unique_vcards, duplicates)
AddDuplicatesBack ==
    /\ pc = "aggregated"
    /\ unique_vcards' = unique_vcards
           \o [g \in 1..Len(duplicates) |-> duplicates[g].members[1]]
    /\ pc' = "added"
    /\ UNCHANGED <<file, heap, vcards, duplicates, processed_lines,
                   vcard, text, reparsed>>

\* remove_duplicate_phone_numbers(unique_vcards)
RemoveDuplicatePhoneNumbers ==
    /\ pc = "added"
    /\ heap' = [i \in 1..Len(heap) |->
                   IF i \in Range(unique_vcards)
                   THEN DedupPhonesOfRecord(heap[i]) ELSE heap[i]]
    /\ pc' = "done"
    /\ UNCHANGED <<file, vcards, unique_vcards, duplicates, processed_lines,
                   vcard, text, reparsed>>

Next ==
    \/ ReadVcards
    \/ RemoveNullValues
    \/ OrganizeDuplicates
    \/ RemoveIdenticalEntries
    \/ MoveUniqueEntriesBack
    \/ CleanAndAggregate
    \/ AddDuplicatesBack
    \/ RemoveDuplicatePhoneNumbers

Spec == Init /\ [][Next]_vars

(***************************************************************************)
(* preprocess_vcard_lines applied to a sequence of physical lines.         *)
(***************************************************************************)
InitUnfold == pc = "unfold" /\ file \in UnfoldInputs /\ Idle

Unfold ==
    /\ pc = "unfold"
    /\ processed_lines' = preprocess_vcard_lines(file)
    /\ pc' = "unfolded"
    /\ UNCHANGED <<file, heap, vcards, unique_vcards, duplicates,
                   vcard, text, reparsed>>

NextUnfold == Unfold

SpecUnfold == InitUnfold /\ [][NextUnfold]_vars

(***************************************************************************)
(* parse_vcard, vcard_to_string and parse_vcard again.                     *)
(***************************************************************************)
InitRoundTrip == pc = "block" /\ file \in RoundTripBlocks /\ Idle

Parse ==
    /\ pc = "block"
    /\ vcard' = parse_vcard(file)
    /\ pc' = "parsed"
    /\ UNCHANGED <<file, heap, vcards, unique_vcards, duplicates,
                   processed_lines, text, reparsed>>

Serialize ==
    /\ pc = "parsed"
    /\ text' = vcard_to_string(vcard)
    /\ pc' = "serialized"
    /\ UNCHANGED <<file, heap, vcards, unique_vcards, duplicates,
                   processed_lines, vcard, reparsed>>

Reparse ==
    /\ pc = "serialized"
    /\ reparsed' = parse_vcard(split(text, "\n"))
    /\ pc' = "reparsed"
    /\ UNCHANGED <<file, heap, vcards, unique_vcards, duplicates,
                   processed_lines, vcard, text>>

NextRoundTrip == Parse \/ Serialize \/ Reparse

SpecRoundTrip == InitRoundTrip /\ [][NextRoundTrip]_vars

(***************************************************************************)
(* Properties.                                                             *)
(***************************************************************************)
NonEmpty(s) == s # <<>>
Max(S) == CHOOSE m \in S : \A x \in S : x <= m
Min(S) == CHOOSE m \in S : \A x \in S : m <= x

\* ---- unfolding ----------------------------------------------------------
\* the line without its trailing run of whitespace
FullStrip(l) ==
    LET keep == {k \in 1..Len(l) : l[k] \notin Whitespace}
    IN  SubSeq(l, 1, IF keep = {} THEN 0 ELSE Max(keep))

\* the line without its terminator
TerminatorStrip(l) ==
    IF l # <<>> /\ l[Len(l)] = "\n" THEN SubSeq(l, 1, Len(l) - 1) ELSE l

IsFold(s) == s # <<>> /\ s[1] \in {" ", "\t"}

\* the lines of S that start a logical line; 0 is the line under
\* construction before the first of them
Heads(S) == {0} \cup {i \in 1..Len(S) : ~IsFold(S[i])}
NextHead(S, h) == Min({j \in Heads(S) : j > h} \cup {Len(S) + 1})
LogicalLine(S, h) ==
    (IF h = 0 THEN <<>> ELSE S[h])
        \o Concat([j \in 1..(NextHead(S, h) - h - 1) |-> Tail(S[h + j])])

RECURSIVE LogicalLines(_, _)
LogicalLines(S, h) ==
    IF h > Len(S) THEN <<>>
    ELSE (IF h \in Heads(S) THEN <<LogicalLine(S, h)>> ELSE <<>>)
         \o LogicalLines(S, h + 1)

\* C10, as amended: once ALL trailing whitespace of each physical line is
\* stripped, a line that still begins with a space or a tab is a
\* continuation, appended without its first character to the logical line
\* under construction; every other line (one that was only whitespace too)
\* starts a new logical line; the non-empty logical lines are the output,
\* in order.
C10_UnfoldStripped ==
    pc = "unfolded" =>
        processed_lines =
            SelectSeq(LogicalLines([i \in 1..Len(file) |-> FullStrip(file[i])],
                                   0), NonEmpty)

\* a line with trailing spaces is followed by a whitespace-only line and by
\* a continuation: two logical lines come out
C10_Witness ==
    /\ pc = "unfolded"
    /\ file = <<Line(<<"a", " ">>), Line(<<" ">>), Line(<<" ", "a">>)>>
    /\ processed_lines = <<<<"a">>, <<"a">>>>

\* C10, as written: only the terminator is stripped, so the preceding
\* line keeps its trailing spaces.  Stated for the inputs where the claim
\* leaves no doubt: the first line is no continuation and no line is blank.
C10_UnfoldTerminatorOnly ==
    LET S == [i \in 1..Len(file) |-> TerminatorStrip(file[i])]
    IN  (/\ pc = "unfolded"
         /\ Len(S) > 0
         /\ ~IsFold(S[1])
         /\ \A i \in 1..Len(S) : FullStrip(S[i]) # <<>>)
        => processed_lines = LogicalLines(S, 1)

\* ---- round trip ---------------------------------------------------------
\* C2: parsing the lines of the serialization of a parsed record gives the
\* record back.
C2_RoundTrip == pc = "reparsed" => DictEq(reparsed, vcard) /\ reparsed = vcard

\* ---- boundary markers ---------------------------------------------------
\* C8: no record has an entry named BEGIN or END.
C8_NoBoundaryEntries ==
    \A id \in 1..Len(heap) : BEGIN \notin Keys(heap[id]) /\ END \notin Keys(heap[id])

\* ---- name key -----------------------------------------------------------
\* C9: the grouper gets a name key for every record; the run is not aborted.
C9_NameKeyNeverAborts == pc # "TypeError"

\* ---- null filter --------------------------------------------------------
NullCI(value) ==
    /\ Len(value) = 4
    /\ value[1] \in {"N", "n"} /\ value[2] \in {"U", "u"}
    /\ value[3] \in {"L", "l"} /\ value[4] \in {"L", "l"}

NotNullCI(pv) == ~NullCI(pv.value)
KeySeq(rec) == [i \in 1..Len(rec) |-> rec[i].key]
Survives(e) == \E i \in 1..Len(e.insts) : NotNullCI(e.insts[i])

NullFiltered(orig, now) ==
    /\ KeySeq(now) = KeySeq(SelectSeq(orig, Survives))
    /\ \A i \in 1..Len(now) :
          /\ now[i].isList = Get(orig, now[i].key).isList
          /\ now[i].insts = SelectSeq(Get(orig, now[i].key).insts, NotNullCI)

\* C6: after the filter no instance of any record is NULL in any letter
\* case (nor later in the run); a property whose instances were all NULL is
\* gone; the other instances are there, in order, under their names.
C6_NullFilter ==
    /\ pc \notin {"start", "read"} =>
          \A id \in 1..Len(heap) : \A i \in 1..Len(heap[id]) :
              \A j \in 1..Len(heap[id][i].insts) :
                  NotNullCI(heap[id][i].insts[j])
    /\ pc = "filtered" =>
          /\ Len(heap) = Len(read_vcards(file))
          /\ \A id \in 1..Len(heap) :
                NullFiltered(read_vcards(file)[id], heap[id])

\* a TEL list lost a lower-case null and kept another number
C6_Witness ==
    /\ pc = "filtered"
    /\ \E id \in 1..Len(heap) :
          LET orig == read_vcards(file)[id]
          IN  /\ HasKey(orig, TEL) /\ HasKey(heap[id], TEL)
              /\ \E j \in 1..Len(Get(orig, TEL).insts) :
                    Get(orig, TEL).insts[j].value = <<"n", "u", "l", "l">>
              /\ Len(Get(heap[id], TEL).insts) = 1
              /\ Get(heap[id], TEL).isList

\* ---- grouping -----------------------------------------------------------
\* the input records (identities) that have name key k, in input order
SameKey(k) == SelectSeq(vcards, LAMBDA id : name_key(heap[id]) = k)
InputKeys == {name_key(heap[id]) : id \in Range(vcards)}
RepeatedKeys == {k \in InputKeys : Len(SameKey(k)) >= 2}
KeyIsUnique(id) == Len(SameKey(name_key(heap[id]))) = 1

Owned ==
    unique_vcards
        \o Concat([g \in 1..Len(duplicates) |-> duplicates[g].members])

NoRepeats(seq) == \A i, j \in 1..Len(seq) : i # j => seq[i] # seq[j]

\* C4: from the end of organize_duplicates to the end of
\* move_unique_entries_back no record is held twice (by the unique list and
\* a group, or by two groups); after grouping every input record is held,
\* the unique list is the records whose name key no other record has, in
\* input order, and each other record is in the group of its key, the
\* members in input order.
C4_Ownership ==
    /\ pc \in {"organized", "collapsed", "promoted"} =>
          /\ NoRepeats(Owned)
          /\ Range(Owned) \subseteq Range(vcards)
    /\ pc = "organized" =>
          /\ Range(Owned) = Range(vcards)
          /\ unique_vcards = SelectSeq(vcards, KeyIsUnique)
          /\ {duplicates[g].key : g \in 1..Len(duplicates)} = RepeatedKeys
          /\ NoRepeats([g \in 1..Len(duplicates) |-> duplicates[g].key])
          /\ \A g \in 1..Len(duplicates) :
                duplicates[g].members = SameKey(duplicates[g].key)

\* two distinct records that are equal as values are grouped, and a third
\* record is unique
C4_Witness ==
    /\ pc = "organized"
    /\ unique_vcards # <<>>
    /\ \E g \in 1..Len(duplicates) : \E a, b \in Range(duplicates[g].members) :
          a # b /\ DictEq(heap[a], heap[b])

\* ---- collapse and promotion ---------------------------------------------
\* the members of key k that no earlier member of k serializes like
FirstOfForm(id) ==
    \A j \in 1..(id - 1) :
        name_key(heap[j]) = name_key(heap[id]) =>
            vcard_to_string(heap[j]) # vcard_to_string(heap[id])
Kept(k) == SelectSeq(SameKey(k), FirstOfForm)
GroupKeySeq == [g \in 1..Len(duplicates) |-> duplicates[g].key]

\* the input position where the group of key k was created
GroupCreation(k) == SameKey(k)[2]

\* C5: after clean_duplicates each group holds the first member of each
\* serialized form, in member order, and has at least two members, of
\* pairwise different forms; a repeated key whose group shrank to one
\* member has no group, and that member is in the unique list.
C5_CollapseThenPromote ==
    pc = "promoted" =>
        /\ \A g \in 1..Len(duplicates) :
              /\ duplicates[g].key \in RepeatedKeys
              /\ duplicates[g].members = Kept(duplicates[g].key)
              /\ Len(duplicates[g].members) >= 2
              /\ \A a, b \in Range(duplicates[g].members) :
                    a # b => vcard_to_string(heap[a]) # vcard_to_string(heap[b])
        /\ NoRepeats(GroupKeySeq)
        /\ \A k \in RepeatedKeys :
              IF Len(Kept(k)) = 1
              THEN /\ k \notin Range(GroupKeySeq)
                   /\ Kept(k)[1] \in Range(unique_vcards)
                   /\ \A id \in Range(SameKey(k)) :
                         id # Kept(k)[1] => id \notin Range(unique_vcards)
              ELSE k \in Range(GroupKeySeq)
        /\ SelectSeq(unique_vcards, KeyIsUnique) = SelectSeq(vcards, KeyIsUnique)

\* two byte-identical records of one name key: one record in the unique
\* list and no group
C5_Witness ==
    /\ pc = "promoted"
    /\ duplicates = <<>>
    /\ \E a, b \in Range(vcards) :
          /\ a < b
          /\ name_key(heap[a]) = name_key(heap[b])
          /\ vcard_to_string(heap[a]) = vcard_to_string(heap[b])
          /\ a \in Range(unique_vcards) /\ b \notin Range(unique_vcards)

\* ---- end to end ---------------------------------------------------------
IsOriginal(id) == id <= Len(vcards)
IsMerged(id) == id > Len(vcards)
FinalKeys == [i \in 1..Len(unique_vcards) |-> name_key(heap[unique_vcards[i]])]

\* C3: at the end of the run (no FN was a list, the run was not aborted)
\* the final list has one record for each name key of the filtered input
\* and no two of one key; the records whose key was unique come first, in
\* input order; the merged records come after every original, in the order
\* in which their groups were created.
C3_EndToEnd ==
    pc = "done" =>
        /\ \A i \in 1..Len(unique_vcards) :
              ~ExtractNameRaises(heap[unique_vcards[i]])
        /\ NoRepeats(FinalKeys)
        /\ Range(FinalKeys) = InputKeys
        /\ \A i, j \in 1..Len(unique_vcards) :
              (IsMerged(unique_vcards[i]) /\ IsOriginal(unique_vcards[j]))
                  => j < i
        /\ \A i, j \in 1..Len(unique_vcards) :
              (IsMerged(unique_vcards[i]) /\ IsMerged(unique_vcards[j]) /\ i < j)
                  => GroupCreation(FinalKeys[i]) < GroupCreation(FinalKeys[j])
        /\ SubSeq(unique_vcards, 1, Len(SelectSeq(vcards, KeyIsUnique)))
              = SelectSeq(vcards, KeyIsUnique)

\* two groups of two, the one of the key seen first created last: the
\* merged records are in the order of group creation
C3_Witness ==
    /\ pc = "done"
    /\ Len(vcards) = 4
    /\ Len(unique_vcards) = 2
    /\ IsMerged(unique_vcards[1])
    /\ IsMerged(unique_vcards[2])
    /\ name_key(heap[1]) = <<",", " ">>
    /\ FinalKeys = <<<<"D", ",", " ", "J">>, <<",", " ">>>>

\* ---- phone numbers ------------------------------------------------------
FirstAt(insts, value) == Min({i \in 1..Len(insts) : insts[i].value = value})
LastAt(insts, value) == Max({i \in 1..Len(insts) : insts[i].value = value})
Values(insts) == {insts[i].value : i \in 1..Len(insts)}

PhonesDeduplicated(old, new) ==
    /\ Values(new) = Values(old)
    /\ \A i, j \in 1..Len(new) : i # j => new[i].value # new[j].value
    /\ \A i, j \in 1..Len(new) :
          i < j => FirstAt(old, new[i].value) < FirstAt(old, new[j].value)
    /\ \A i \in 1..Len(new) : new[i] = old[LastAt(old, new[i].value)]

PhoneStep(before, after) ==
    IF HasKey(before, TEL)
    THEN /\ Len(after) = Len(before)
         /\ \A i \in 1..Len(before) :
               IF before[i].key = TEL
               THEN /\ after[i].key = TEL
                    /\ after[i].isList
                    /\ PhonesDeduplicated(before[i].insts, after[i].insts)
               ELSE after[i] = before[i]
    ELSE after = before

\* C7: remove_duplicate_phone_numbers leaves, in every record of the list
\* that has TEL, TEL as a list of one instance for each distinct value,
\* ordered by the first occurrence of the values, each instance being the
\* last occurrence of its value; the other properties, the records without
\* TEL and the records outside the list are unchanged.
C7_PhoneDedup ==
    [][pc = "added" =>
          /\ Len(heap') = Len(heap)
          /\ unique_vcards' = unique_vcards
          /\ \A id \in 1..Len(heap) :
                IF id \in Range(unique_vcards)
                THEN PhoneStep(heap[id], heap'[id])
                ELSE heap'[id] = heap[id]]_vars

\* TEL;C:1, TEL:2, TEL;H:1 became TEL;H:1, TEL:2
C7_Witness ==
    /\ pc = "done"
    /\ file = FileOf(<<<<TEL_C_1, TEL_2, TEL_H_1>>>>)
    /\ \E id \in Range(unique_vcards) :
          /\ HasKey(heap[id], TEL)
          /\ Get(heap[id], TEL).isList
          /\ Get(heap[id], TEL).insts =
                <<[value |-> <<"1">>, params |-> <<<<"H">>>>],
                  [value |-> <<"2">>, params |-> <<>>]>>

\* ---- aggregation --------------------------------------------------------
IsProperName(name) == ~item_pattern_match(name) /\ name \notin {BEGIN, END}

\* the instances the members hold under a name, member after member
InstancesUnder(members, name) ==
    Concat([m \in 1..Len(members) |->
               IF HasKey(heap[members[m]], name)
               THEN Get(heap[members[m]], name).insts ELSE <<>>])

RECURSIVE DistinctFirstSeen(_, _)
DistinctFirstSeen(insts, seen) ==
    IF insts = <<>> THEN <<>>
    ELSE IF Head(insts) \in seen THEN DistinctFirstSeen(Tail(insts), seen)
    ELSE <<Head(insts)>>
         \o DistinctFirstSeen(Tail(insts), seen \cup {Head(insts)})

MemberNames(members) == UNION {Keys(heap[members[m]]) : m \in 1..Len(members)}

\* C1: the merged record of a group holds, under each property name that
\* is not an item<digits>. name, each distinct instance (params and value)
\* of the members once, in first-seen order, and holds no item<digits>.
\* name.  (The boundary pseudo-properties are left out of the statement.)
C1_MergeKeepsDistinct ==
    [][pc = "promoted" =>
          \A g \in 1..Len(duplicates) :
              LET members == duplicates[g].members
                  merged == heap'[duplicates'[g].members[1]]
              IN  /\ \A name \in MemberNames(members) :
                        IsProperName(name) =>
                            /\ HasKey(merged, name)
                            /\ Get(merged, name).insts =
                                  DistinctFirstSeen(
                                      InstancesUnder(members, name), {})
                  /\ \A name \in Keys(merged) : ~item_pattern_match(name)]_vars

==========================================================================
